---- MODULE Spec2Model ----
(***************************************************************************)
(* Model of the MCP7940N real-time-clock driver (src/src/lib.rs).          *)
(*                                                                         *)
(* The driver owns nothing but the bus handle; all persistent state is the *)
(* register bank of the peripheral.  Every public operation of the driver  *)
(* is one action: it performs its bus transactions against the register    *)
(* bank, and records what it was called with, the transactions it issued   *)
(* and what it returned.                                                   *)
(***************************************************************************)
EXTENDS Integers, Sequences, FiniteSets, TLC

VARIABLES
    regs,     \* register bank of the peripheral: register address -> byte
    call,     \* the operation executed last and its argument
    pre,      \* the register bank as it was when that operation started
    txlog,    \* the bus transactions that operation issued, in order
    result,   \* what that operation returned to the caller
    prev,     \* call, result and pre of the operation before it
    nops      \* number of operations executed so far

vars == <<regs, call, pre, txlog, result, prev, nops>>

\* Number of driver operations in one run.
MaxOps == 2

\* Highest register address of the simulated register bank.
MaxReg == 8

\* Mcp7940n::ADDRESS, 0b110_1111
ADDRESS == 111

(***************************************************************************)
(* u8 / i32 arithmetic of the source                                       *)
(***************************************************************************)

\* bit i of byte x
Bit(x, i) == (x \div (2 ^ i)) % 2

\* a & b on u8, bit by bit
BitAnd(a, b) ==
      (a % 2) * (b % 2)
    + 2 * (((a \div 2) % 2) * ((b \div 2) % 2))
    + 4 * (((a \div 4) % 2) * ((b \div 4) % 2))
    + 8 * (((a \div 8) % 2) * ((b \div 8) % 2))
    + 16 * (((a \div 16) % 2) * ((b \div 16) % 2))
    + 32 * (((a \div 32) % 2) * ((b \div 32) % 2))
    + 64 * (((a \div 64) % 2) * ((b \div 64) % 2))
    + 128 * (((a \div 128) % 2) * ((b \div 128) % 2))

\* a | b on u8
BitOr(a, b) == a + b - BitAnd(a, b)

\* a << n on u8: bits shifted out of the byte are lost
Shl(a, n) == (a * (2 ^ n)) % 256

\* a >> n on u8
Shr(a, n) == a \div (2 ^ n)

\* x as u8: two's complement truncation
AsU8(x) == x % 256

\* a / b on i32: rounds toward zero
TruncDiv(a, b) == IF a >= 0 THEN a \div b ELSE -((-a) \div b)

\* a % b on i32: sign of the dividend
TruncRem(a, b) == a - b * TruncDiv(a, b)

(***************************************************************************)
(* chrono: NaiveDate::from_ymd_opt and NaiveDate::and_hms_opt              *)
(***************************************************************************)

IsLeap(y) == (y % 4 = 0 /\ y % 100 # 0) \/ y % 400 = 0

DaysInMonth(y, m) ==
    IF m = 2 THEN (IF IsLeap(y) THEN 29 ELSE 28)
    ELSE IF m \in {4, 6, 9, 11} THEN 30
    ELSE 31

\* from_ymd_opt(y, m, d) is Some
ValidYmd(y, m, d) == m \in 1..12 /\ d >= 1 /\ d <= DaysInMonth(y, m)

\* and_hms_opt(h, mi, s) is Some
ValidHms(h, mi, s) == h < 24 /\ mi < 60 /\ s < 60

DateTime(y, m, d, h, mi, s) ==
    [year |-> y, month |-> m, day |-> d, hour |-> h, minute |-> mi, second |-> s]

ValidDateTime(t) ==
    ValidYmd(t.year, t.month, t.day) /\ ValidHms(t.hour, t.minute, t.second)

(***************************************************************************)
(* Inputs                                                                  *)
(***************************************************************************)

ClockSource == {"ExtCrystal", "ExtClock"}

ClockConfig == [enabled : BOOLEAN, clock_source : ClockSource]

\* The NaiveDateTime values handed to set_datetime.  Two of them lie outside
\* the years the peripheral can hold.
Timestamps ==
    { t \in { DateTime(2000, 1, 1, 0, 0, 0),
              DateTime(2099, 12, 31, 23, 59, 59),
              DateTime(2024, 2, 29, 12, 30, 45),
              DateTime(2019, 10, 9, 19, 8, 7),
              DateTime(1999, 12, 31, 23, 59, 59),
              DateTime(2100, 1, 1, 0, 0, 0) } : ValidDateTime(t) }

Regs == 0..MaxReg

\* A bank holding 2024-02-29 11:30:45 PM in 12-hour mode, with the
\* oscillator-enable bit, the reserved bit of the minutes register, bit 7 of
\* the hours register and the top two bits of the day and month registers
\* set, the oscillator-running bit clear, and a control register with bit 3
\* clear.
SentinelBank ==
    [r \in Regs |->
        CASE r = 0 -> \b11000101
          [] r = 1 -> \b10110000
          [] r = 2 -> \b11110001
          [] r = 3 -> \b11001011
          [] r = 4 -> \b10101001
          [] r = 5 -> \b01100010
          [] r = 6 -> \b00100100
          [] r = 7 -> \b01000000
          [] OTHER -> \b01011010]

\* A bank holding 2024-02-29 11:30:45 in 24-hour mode with no flag set
ValidBank ==
    [r \in Regs |->
        CASE r = 0 -> \b01000101
          [] r = 1 -> \b00110000
          [] r = 2 -> \b00010001
          [] r = 3 -> \b00000100
          [] r = 4 -> \b00101001
          [] r = 5 -> \b00000010
          [] r = 6 -> \b00100100
          [] OTHER -> 0]

\* Register banks the driver is started on
InitialBanks ==
    { [r \in Regs |-> 0], [r \in Regs |-> 255], SentinelBank }

\* Register banks for the decode path: a valid bank with the seconds,
\* minutes, hours, weekday, day, month or year register given any value
DecodeBanks ==
    { [ValidBank EXCEPT ![r] = v] : r \in 0..6, v \in 0..255 }

(***************************************************************************)
(* The bus: embedded_hal::i2c::I2c against the register bank               *)
(***************************************************************************)

\* write_read(ADDRESS, &[reg], &mut buf[from..]): the registers from reg on
\* are read into buf[from], buf[from + 1], ...
WriteRead(bank, reg, buf, from) ==
    [i \in DOMAIN buf |-> IF i >= from THEN bank[reg + (i - from)] ELSE buf[i]]

\* write(ADDRESS, &data): data[0] selects the register, the bytes after it
\* go to that register and the ones following it.  w is the number of those
\* bytes the peripheral took; the transaction succeeded when it took all.
Write(bank, data, w) ==
    [r \in DOMAIN bank |->
        IF r >= data[0] /\ r < data[0] + w THEN data[(r - data[0]) + 1]
        ELSE bank[r]]

Transaction(kind, reg, n, ok) ==
    [addr |-> ADDRESS, kind |-> kind, reg |-> reg, n |-> n, ok |-> ok]

\* Err(e) of the transaction number txn of the operation
TransportErr(txn) == [kind |-> "Err", txn |-> txn]

Ok(v) == [kind |-> "Ok", value |-> v]

\* Option::unwrap on None
Panic == [kind |-> "Panic"]

Outcome(bank, log, res) == [regs |-> bank, txlog |-> log, result |-> res]

(***************************************************************************)
(* configure_clock                                                         *)
(***************************************************************************)

ApplyEnabledOverwrite(data, enabled) ==
    [data EXCEPT ![1] = IF enabled THEN \b10000000 ELSE 0]

\* if config.enabled { data[1] |= 0b1000_0000 } else { data[1] &= 0b0111_1111 }
ApplyEnabled(data, enabled) ==
    [data EXCEPT ![1] = IF enabled THEN BitOr(@, \b10000000)
                                   ELSE BitAnd(@, \b01111111)]

ApplyClockSourceOffByOne(data, clock_source) ==
    [data EXCEPT ![7] = IF clock_source = "ExtClock" THEN BitOr(@, \b00001000)
                                                     ELSE BitAnd(@, \b11110111)]

\* match config.clock_source { ExtClock => data[8] |= 0b0000_1000,
\*                             ExtCrystal => data[8] &= 0b1111_0111 }
ApplyClockSource(data, clock_source) ==
    [data EXCEPT ![8] = IF clock_source = "ExtClock" THEN BitOr(@, \b00001000)
                                                     ELSE BitAnd(@, \b11110111)]

ConfigureClockOutcome(bank, config, rdOk, w) ==
    LET zeroed == [i \in 0..8 |-> 0]
        rd == Transaction("write_read", 0, 8, rdOk)
    IN  IF ~rdOk THEN Outcome(bank, <<rd>>, TransportErr(1))
        ELSE LET data == ApplyClockSource(
                             ApplyEnabled(WriteRead(bank, 0, zeroed, 1),
                                          config.enabled),
                             config.clock_source)
                 wr == Transaction("write", data[0], 8, w = 8)
             IN  Outcome(Write(bank, data, w), <<rd, wr>>,
                         IF w = 8 THEN Ok("unit") ELSE TransportErr(2))

(***************************************************************************)
(* osc_running                                                             *)
(***************************************************************************)

OscRunningOutcomeEnableBit(bank, rdOk) ==
    LET zeroed == [i \in 0..0 |-> 0]
        rd == Transaction("write_read", 0, 1, rdOk)
    IN  IF ~rdOk THEN Outcome(bank, <<rd>>, TransportErr(1))
        ELSE LET data == WriteRead(bank, 0, zeroed, 0)
             IN  Outcome(bank, <<rd>>, Ok(BitAnd(data[0], \b10000000) # 0))

OscRunningOutcome(bank, rdOk) ==
    LET zeroed == [i \in 0..0 |-> 0]
        rd == Transaction("write_read", 3, 1, rdOk)
    IN  IF ~rdOk THEN Outcome(bank, <<rd>>, TransportErr(1))
        ELSE LET data == WriteRead(bank, 3, zeroed, 0)
             IN  Outcome(bank, <<rd>>, Ok(BitAnd(data[0], \b00100000) # 0))

(***************************************************************************)
(* now                                                                     *)
(***************************************************************************)

\* secs = (sec_ten * 10) + sec_ones
DecodeSeconds(b) == (Shr(BitAnd(b, \b01110000), 4) * 10) + BitAnd(b, \b00001111)

\* min = (min_ten * 10) + min_ones
DecodeMinutes(b) == (Shr(BitAnd(b, \b01110000), 4) * 10) + BitAnd(b, \b00001111)

DecodeHourNoNoonCase(b) ==
    LET hr_12 == BitAnd(b, \b01000000) # 0
        hr_ones == BitAnd(b, \b00001111)
    IN  IF hr_12
        THEN LET pm == BitAnd(b, \b00100000) # 0
                 hr_ten == Shr(BitAnd(b, \b00010000), 4)
                 hr == (hr_ten * 10) + hr_ones
             IN  IF pm THEN hr + 12
                 ELSE IF ~pm /\ hr = 12 THEN 0
                 ELSE hr
        ELSE LET hr_ten == Shr(BitAnd(b, \b00110000), 4)
             IN  (hr_ten * 10) + hr_ones

\* the hour, always converted to 24hr time
DecodeHour(b) ==
    LET hr_12 == BitAnd(b, \b01000000) # 0
        hr_ones == BitAnd(b, \b00001111)
    IN  IF hr_12
        THEN LET pm == BitAnd(b, \b00100000) # 0
                 hr_ten == Shr(BitAnd(b, \b00010000), 4)
                 hr == (hr_ten * 10) + hr_ones
             IN  IF pm /\ hr # 12 THEN hr + 12
                 ELSE IF ~pm /\ hr = 12 THEN 0
                 ELSE hr
        ELSE LET hr_ten == Shr(BitAnd(b, \b00110000), 4)
             IN  (hr_ten * 10) + hr_ones

\* day = (day_ten * 10) + day_ones
DecodeDay(b) == (Shr(BitAnd(b, \b00110000), 4) * 10) + BitAnd(b, \b00001111)

\* month = (month_ten * 10) + month_ones
DecodeMonth(b) == (Shr(BitAnd(b, \b00010000), 4) * 10) + BitAnd(b, \b00001111)

\* year = (year_ten * 10) as i32 + year_ones as i32 + 2000
DecodeYear(b) == (Shr(BitAnd(b, \b11110000), 4) * 10) + BitAnd(b, \b00001111) + 2000

NowOutcome(bank, rdOk) ==
    LET zeroed == [i \in 0..6 |-> 0]
        rd == Transaction("write_read", 0, 7, rdOk)
    IN  IF ~rdOk THEN Outcome(bank, <<rd>>, TransportErr(1))
        ELSE LET data == WriteRead(bank, 0, zeroed, 0)
                 secs == DecodeSeconds(data[0])
                 min == DecodeMinutes(data[1])
                 hour == DecodeHour(data[2])
                 day == DecodeDay(data[4])
                 month == DecodeMonth(data[5])
                 year == DecodeYear(data[6])
             IN  Outcome(bank, <<rd>>,
                         IF ValidYmd(year, month, day) /\ ValidHms(hour, min, secs)
                         THEN Ok(DateTime(year, month, day, hour, min, secs))
                         ELSE Panic)

(***************************************************************************)
(* set_datetime                                                            *)
(***************************************************************************)

\* data[1] &= 0b1000_0000; |= seconds_tens << 4; |= seconds_ones
EncodeSeconds(old, second) ==
    BitOr(BitOr(BitAnd(old, \b10000000), Shl(AsU8(second \div 10), 4)),
          AsU8(second % 10))

\* data[2] &= 0b1000_0000; |= minutes_tens << 4; |= minutes_ones
EncodeMinutes(old, minute) ==
    BitOr(BitOr(BitAnd(old, \b10000000), Shl(AsU8(minute \div 10), 4)),
          AsU8(minute % 10))

EncodeHoursKeepMode(old, hour) ==
    BitOr(BitOr(BitAnd(old, \b11000000), Shl(AsU8(hour \div 10), 4)),
          AsU8(hour % 10))

\* data[3] &= 0b1000_0000; |= hours_tens << 4; |= hours_ones
EncodeHours(old, hour) ==
    BitOr(BitOr(BitAnd(old, \b10000000), Shl(AsU8(hour \div 10), 4)),
          AsU8(hour % 10))

EncodeDayNarrowMask(old, day) ==
    BitOr(BitOr(BitAnd(old, \b10000000), Shl(AsU8(day \div 10), 4)),
          AsU8(day % 10))

\* data[5] &= 0b1100_0000; |= day_tens << 4; |= day_ones
EncodeDay(old, day) ==
    BitOr(BitOr(BitAnd(old, \b11000000), Shl(AsU8(day \div 10), 4)),
          AsU8(day % 10))

\* data[6] &= 0b1100_0000; |= month_tens << 4; |= month_ones
EncodeMonth(old, month) ==
    BitOr(BitOr(BitAnd(old, \b11000000), Shl(AsU8(month \div 10), 4)),
          AsU8(month % 10))

EncodeYearNotCleared(old, year) ==
    BitOr(BitOr(old, Shl(AsU8(TruncDiv(year - 2000, 10)), 4)),
          AsU8(TruncRem(year - 2000, 10)))

\* data[7] = 0; |= year_tens << 4; |= year_ones
EncodeYear(old, year) ==
    BitOr(BitOr(0, Shl(AsU8(TruncDiv(year - 2000, 10)), 4)),
          AsU8(TruncRem(year - 2000, 10)))

SetDatetimeOutcomeNoAbort(bank, now, rdOk, w) ==
    LET zeroed == [i \in 0..7 |-> 0]
        rd == Transaction("write_read", 0, 7, rdOk)
        read == IF rdOk THEN WriteRead(bank, 0, zeroed, 1) ELSE zeroed
        data == [read EXCEPT ![1] = EncodeSeconds(@, now.second),
                             ![2] = EncodeMinutes(@, now.minute),
                             ![3] = EncodeHours(@, now.hour),
                             ![5] = EncodeDay(@, now.day),
                             ![6] = EncodeMonth(@, now.month),
                             ![7] = EncodeYear(@, now.year)]
        wr == Transaction("write", data[0], 7, w = 7)
    IN  Outcome(Write(bank, data, w), <<rd, wr>>,
                IF w = 7 THEN Ok("unit") ELSE TransportErr(2))

SetDatetimeOutcome(bank, now, rdOk, w) ==
    LET zeroed == [i \in 0..7 |-> 0]
        rd == Transaction("write_read", 0, 7, rdOk)
    IN  IF ~rdOk THEN Outcome(bank, <<rd>>, TransportErr(1))
        ELSE LET read == WriteRead(bank, 0, zeroed, 1)
                 data == [read EXCEPT ![1] = EncodeSeconds(@, now.second),
                                      ![2] = EncodeMinutes(@, now.minute),
                                      ![3] = EncodeHours(@, now.hour),
                                      ![5] = EncodeDay(@, now.day),
                                      ![6] = EncodeMonth(@, now.month),
                                      ![7] = EncodeYear(@, now.year)]
                 wr == Transaction("write", data[0], 7, w = 7)
             IN  Outcome(Write(bank, data, w), <<rd, wr>>,
                         IF w = 7 THEN Ok("unit") ELSE TransportErr(2))

(***************************************************************************)
(* The driver as a state machine                                           *)
(***************************************************************************)

\* Mcp7940n::new performs no bus transaction
New(bank) ==
    /\ regs = bank
    /\ call = [op |-> "new"]
    /\ pre = bank
    /\ txlog = <<>>
    /\ result = Ok("unit")
    /\ prev = [call |-> [op |-> "none"], result |-> Ok("unit"), pre |-> bank]
    /\ nops = 0

Init == \E bank \in InitialBanks : New(bank)

InitDecode == \E bank \in DecodeBanks : New(bank)

\* One operation of the driver, from call to return
Operation(c, outcome) ==
    /\ nops < MaxOps
    /\ nops' = nops + 1
    /\ prev' = [call |-> call, result |-> result, pre |-> pre]
    /\ call' = c
    /\ pre' = regs
    /\ LET out == outcome
       IN  /\ regs' = out.regs
           /\ txlog' = out.txlog
           /\ result' = out.result

ConfigureClock ==
    \E config \in ClockConfig, rdOk \in BOOLEAN :
      \E w \in IF rdOk THEN 0..8 ELSE {0} :
        Operation([op |-> "configure_clock", arg |-> config],
                  ConfigureClockOutcome(regs, config, rdOk, w))

OscRunning ==
    \E rdOk \in BOOLEAN :
        Operation([op |-> "osc_running"], OscRunningOutcome(regs, rdOk))

Now ==
    \E rdOk \in BOOLEAN :
        Operation([op |-> "now"], NowOutcome(regs, rdOk))

SetDatetime ==
    \E now \in Timestamps, rdOk \in BOOLEAN :
      \E w \in IF rdOk THEN 0..7 ELSE {0} :
        Operation([op |-> "set_datetime", arg |-> now],
                  SetDatetimeOutcome(regs, now, rdOk, w))

Next == ConfigureClock \/ OscRunning \/ Now \/ SetDatetime

Spec == Init /\ [][Next]_vars

\* The read path alone, over the register banks of DecodeBanks
NextDecode == Now

SpecDecode == InitDecode /\ [][NextDecode]_vars

(***************************************************************************)
(* Properties                                                              *)
(***************************************************************************)

\* the years the peripheral's two-digit year register can hold
InRange(year) == year \in 2000..2099

\* n as two BCD digits, tens in the high nibble
Bcd(n) == 16 * (n \div 10) + (n % 10)

\* every transaction of the last operation succeeded
AllTransactionsOk == \A i \in 1..Len(txlog) : txlog[i].ok

Succeeded(op) == call.op = op /\ result.kind = "Ok"

\* C1: a successful set_datetime(t) with year in 2000..2099 immediately
\* followed by a now() whose read succeeds makes now() return exactly the
\* year, month, day, hour, minute and second of t, whatever the register
\* bank held before.
RoundTrip ==
    ( /\ call.op = "now"
      /\ AllTransactionsOk
      /\ prev.call.op = "set_datetime"
      /\ prev.result.kind = "Ok"
      /\ InRange(prev.call.arg.year) )
    => /\ result.kind = "Ok"
       /\ result.value = prev.call.arg

RoundTripWitness ==
    /\ call.op = "now"
    /\ result.kind = "Ok"
    /\ prev.call.op = "set_datetime"
    /\ prev.result.kind = "Ok"
    /\ prev.pre = SentinelBank
    /\ prev.call.arg = DateTime(2099, 12, 31, 23, 59, 59)
    /\ result.value.hour = 23

\* C2: a successful set_datetime with year in 2000..2099 leaves unchanged
\* bit 7 of register 0x00, the whole weekday register 0x03, the top two bits
\* of the day register 0x04 and the top two bits of the month register 0x05.
BitPreservation ==
    (Succeeded("set_datetime") /\ InRange(call.arg.year))
    => /\ Bit(regs[0], 7) = Bit(pre[0], 7)
       /\ regs[3] = pre[3]
       /\ regs[4] \div 64 = pre[4] \div 64
       /\ regs[5] \div 64 = pre[5] \div 64

BitPreservationWitness ==
    /\ Succeeded("set_datetime")
    /\ InRange(call.arg.year)
    /\ pre = [r \in Regs |-> 255]
    /\ regs[4] = \b11000001
    /\ regs[5] = \b11000001

\* the registers a transaction covers
Span(tx) == { r \in Regs : r >= tx.reg /\ r < tx.reg + tx.n }

\* C3: after a successful configure_clock the oscillator-enable bit (bit 7
\* of the seconds register) equals config.enabled, bit 3 of the clock-source
\* control byte (the last byte of the image written back) is set exactly
\* when clock_source is ExtClock, and every other bit of every register that
\* was read and written back equals its value before the call.
ConfigurationIsolation ==
    Succeeded("configure_clock")
    => LET span == Span(txlog[1]) \cap Span(txlog[2])
           control == txlog[2].reg + txlog[2].n - 1
       IN  /\ Bit(regs[0], 7) = (IF call.arg.enabled THEN 1 ELSE 0)
           /\ Bit(regs[control], 3) =
                  (IF call.arg.clock_source = "ExtClock" THEN 1 ELSE 0)
           /\ \A r \in span, b \in 0..7 :
                  (<<r, b>> \notin {<<0, 7>>, <<control, 3>>})
                  => Bit(regs[r], b) = Bit(pre[r], b)

ConfigurationIsolationWitness ==
    /\ Succeeded("configure_clock")
    /\ pre = SentinelBank
    /\ call.arg = [enabled |-> FALSE, clock_source |-> "ExtClock"]
    /\ regs # pre

\* C4: set_datetime with a year outside 2000..2099 fails with a range error
\* and modifies no register.
OutOfRangeYearRejected ==
    ( /\ call.op = "set_datetime"
      /\ ~InRange(call.arg.year)
      /\ AllTransactionsOk )
    => /\ result.kind = "RangeErr"
       /\ regs = pre

\* C5: an operation issues at most two transactions and none of them twice;
\* when the initial read of set_datetime or configure_clock fails, the
\* operation returns that transport error, issues no write and leaves every
\* register unchanged.
TransportFailureAborts ==
    /\ Len(txlog) <= 2
    /\ \A i, j \in 1..Len(txlog) : i # j => txlog[i].kind # txlog[j].kind
    /\ ( /\ call.op \in {"set_datetime", "configure_clock"}
         /\ ~txlog[1].ok )
       => /\ result = TransportErr(1)
          /\ Len(txlog) = 1
          /\ txlog[1].kind = "write_read"
          /\ regs = pre

TransportFailureAbortsWitness ==
    /\ call.op = "set_datetime"
    /\ Len(txlog) = 1
    /\ ~txlog[1].ok
    /\ result.kind = "Err"
    /\ prev.call.op = "configure_clock"
    /\ prev.result = TransportErr(1)

\* C6: when now() reads a register image whose decoded fields do not form a
\* valid calendar date-time, it returns a decode error to the caller.
InvalidDateIsDecodeError ==
    ( /\ call.op = "now"
      /\ AllTransactionsOk
      /\ ~ ( /\ ValidYmd(DecodeYear(pre[6]), DecodeMonth(pre[5]), DecodeDay(pre[4]))
             /\ ValidHms(DecodeHour(pre[2]), DecodeMinutes(pre[1]),
                         DecodeSeconds(pre[0])) ) )
    => result.kind = "DecodeErr"

\* C7 as stated: configure_clock reads the 9 registers 0x00..0x08, applies
\* clock_source to bit 3 of register 0x08, writes back the 9 registers
\* 0x00..0x08 and leaves register 0x07 unchanged.
ClockSourceInRegister8 ==
    Succeeded("configure_clock")
    => /\ Span(txlog[1]) = 0..8
       /\ Span(txlog[2]) = 0..8
       /\ Bit(regs[8], 3) = (IF call.arg.clock_source = "ExtClock" THEN 1 ELSE 0)
       /\ regs[7] = pre[7]

\* C7, amended: configure_clock reads the 8 registers 0x00..0x07, applies
\* clock_source to bit 3 of register 0x07, writes back the 8 registers
\* 0x00..0x07 and leaves register 0x08 unchanged.
ClockSourceInRegister7 ==
    Succeeded("configure_clock")
    => /\ txlog[1].kind = "write_read"
       /\ Span(txlog[1]) = 0..7
       /\ txlog[2].kind = "write"
       /\ Span(txlog[2]) = 0..7
       /\ Bit(regs[7], 3) = (IF call.arg.clock_source = "ExtClock" THEN 1 ELSE 0)
       /\ regs[8] = pre[8]

ClockSourceInRegister7Witness ==
    /\ Succeeded("configure_clock")
    /\ call.arg.clock_source = "ExtClock"
    /\ Bit(pre[7], 3) = 0
    /\ Bit(regs[7], 3) = 1
    /\ Bit(pre[8], 3) = 1

\* C8: with bit 6 of the hours register set and BCD hour h in 1..12 in bits
\* 4:0, now() yields h + 12 when bit 5 (PM) is set and h is not 12, 0 when
\* PM is clear and h is 12, and h otherwise; with bit 6 clear the hour it
\* yields is tens (bits 5:4) * 10 + ones (bits 3:0).  Bit 7 does not enter.
HourDecoding ==
    (call.op = "now" /\ AllTransactionsOk)
    => LET r == pre[2]
           mode12 == (r \div 64) % 2 = 1
           pm == (r \div 32) % 2 = 1
           h == 10 * ((r \div 16) % 2) + (r % 16)
           expected ==
               IF mode12
               THEN (IF pm /\ h # 12 THEN h + 12
                     ELSE IF ~pm /\ h = 12 THEN 0
                     ELSE h)
               ELSE 10 * ((r \div 16) % 4) + (r % 16)
       IN  /\ result.kind = "Ok" => result.value.hour = expected
           /\ (mode12 /\ h \in 1..12 /\ pre = [ValidBank EXCEPT ![2] = r])
              => result.kind = "Ok"

HourDecodingWitness ==
    /\ call.op = "now"
    /\ result.kind = "Ok"
    /\ pre[2] = \b11110010
    /\ result.value.hour = 12

\* C9: osc_running returns true exactly when bit 5 of register 0x03 is set,
\* whatever the other bits of the bank are, and it writes nothing: its only
\* transaction is a read and every register is unchanged.
OscillatorStatusIndependence ==
    call.op = "osc_running"
    => /\ regs = pre
       /\ \A i \in 1..Len(txlog) : txlog[i].kind = "write_read"
       /\ result.kind = "Ok" => (result.value <=> Bit(pre[3], 5) = 1)

OscillatorStatusIndependenceWitness ==
    /\ Succeeded("osc_running")
    /\ result.value = FALSE
    /\ Bit(pre[0], 7) = 1
    /\ Bit(pre[3], 5) = 0

\* C10: after a successful set_datetime(t) with year in 2000..2099, bit 6 of
\* the hours register is clear and its bits 5:0 hold the BCD hour, the low 7
\* bits of registers 0x00 and 0x01 hold BCD seconds and minutes, the low 6
\* bits of register 0x04 hold BCD day, the low 5 bits of register 0x05 hold
\* BCD month and register 0x06 is BCD (year - 2000).
Encoding24HourBcd ==
    (Succeeded("set_datetime") /\ InRange(call.arg.year))
    => LET t == call.arg
       IN  /\ Bit(regs[2], 6) = 0
           /\ regs[2] % 64 = Bcd(t.hour)
           /\ regs[0] % 128 = Bcd(t.second)
           /\ regs[1] % 128 = Bcd(t.minute)
           /\ regs[4] % 64 = Bcd(t.day)
           /\ regs[5] % 32 = Bcd(t.month)
           /\ regs[6] = Bcd(t.year - 2000)

Encoding24HourBcdWitness ==
    /\ Succeeded("set_datetime")
    /\ call.arg = DateTime(2099, 12, 31, 23, 59, 59)
    /\ Bit(pre[2], 6) = 1
    /\ regs[0] % 128 = \b1011001
    /\ regs[6] = \b10011001

====
